---------------------------- MODULE Spec2Model ----------------------------
(***************************************************************************)
(* The generation session of app.py: the module-level state (pipe,         *)
(* current_lora), apply_lora, generate_image, the event queue in front of  *)
(* the generate button, and the two directories the code reads and writes. *)
(*                                                                         *)
(* Every external call of generate_image (unload_lora_weights,             *)
(* load_lora_weights, set_adapters, manual_seed, the pipeline call,        *)
(* image.save) is a step of its own that either completes or raises.       *)
(***************************************************************************)
EXTENDS Integers, Sequences, FiniteSets, TLC

\* ------------------------------------------------------------------ bounds

\* Generate requests submitted during one run of the server.
NumReq == 2

\* Seconds the wall clock advances during one run.
MaxClock == 1

\* -------------------------------------------------------- program constants

\* random.randint(0, 2147483647): the largest seed drawn.
MaxSeed == 2147483647

\* guidance_scale=0.0
GuidanceScale == 0

\* max_sequence_length=1024
MaxSequenceLength == 1024

\* generate_btn.click(fn=generate_image, ...) names no concurrency_limit and
\* demo.launch() leaves the event queue on: the listener runs with the
\* framework's default limit of one running call.
ConcurrencyLimit == 1

\* current_lora = None
None == "None"

\* ------------------------------------------------------------ input domains

Reqs == 1..NumReq

\* Files that may be present in loras/.
LoraFiles == {"a.safetensors", "b.safetensors"}

\* Values of the LoRA radio: "Off" or a listed file.
LoraChoices == {"Off"} \cup LoraFiles

\* Prompts as sequences of characters.
Prompts == {<< >>, <<" ", "\t">>, <<" ", "a">>}

\* Seed slider: -1 or a literal seed.
SeedInputs == {-1, 7}

\* What random.randint may return (its two ends and a value in between
\* that is also a literal seed of SeedInputs).
DrawnSeeds == {0, 7, MaxSeed}

\* LoRA weight slider, in hundredths (0.0 .. 2.0 in steps of 0.05).
WeightInputs == {50, 100}

StepInputs == {8}
WidthInputs == {1024}
HeightInputs == {512}

Requests ==
    [prompt : Prompts, steps : StepInputs, seed : SeedInputs,
     width : WidthInputs, height : HeightInputs,
     lora_name : LoraChoices, lora_weight : WeightInputs]

NoRequest ==
    [prompt |-> << >>, steps |-> 0, seed |-> 0, width |-> 0, height |-> 0,
     lora_name |-> "", lora_weight |-> 0]

\* ------------------------------------------------------------------- state

VARIABLES
    pipe,          \* "loaded" or None: the global pipe after load_model()
    current_lora,  \* the global current_lora
    attached,      \* adapters attached to the pipeline (the pipeline's own state)
    weight,        \* <<w>>: the weight set on the attached adapter, or << >>
    files,         \* names present in loras/
    outputs,       \* outputs/: file name -> image stored under it
    clobbered,     \* file names of outputs/ written over an existing file
    clock,         \* wall clock, in seconds
    queue,         \* the event queue of the generate button: waiting requests
    req,           \* req[r]: the arguments of call r
    pc,            \* pc[r]: where call r stands
    seed,          \* seed[r]: the local variable seed of call r
    missing,       \* missing[r]: call r named a file that loras/ did not hold
                   \* when apply_lora ran
    inferred,      \* inferred[r]: what call r passed to the pipeline, or << >>
    saved,         \* saved[r]: <<file name, clock>> of call r's save, or << >>
    result,        \* result[r]: what call r returned
    loraBefore,    \* loraBefore[r]: current_lora when call r was entered
    loraAfter,     \* loraAfter[r]: current_lora when call r ended
    calls,         \* the calls made on the pipeline, in order
    cleared        \* cleared[r]: call r has called torch.cuda.empty_cache()

vars ==
    <<pipe, current_lora, attached, weight, files, outputs, clobbered, clock,
      queue, req, pc, seed, missing, inferred, saved, result, loraBefore,
      loraAfter, calls, cleared>>

modelVars == <<pipe, current_lora, attached, weight>>
envVars == <<files, clock>>
outVars == <<outputs, clobbered>>

\* ------------------------------------------------------------ pure helpers

DigitChars == <<"0", "1", "2", "3", "4", "5", "6", "7", "8", "9">>

\* str(n) of a non-negative integer, as a sequence of characters.
RECURSIVE Digits(_)
Digits(n) ==
    IF n < 10 THEN <<DigitChars[n + 1]>>
    ELSE Digits(n \div 10) \o <<DigitChars[(n % 10) + 1]>>

\* A two-digit zero-padded field of strftime.
Pad2(n) == <<DigitChars[((n \div 10) % 10) + 1], DigitChars[(n % 10) + 1]>>

\* time.strftime("%Y%m%d-%H%M%S"): the date and hour do not change within
\* the clock's range and are one element; minutes and seconds are digits.
strftime(t) == <<"YYYYmmdd-HH">> \o Pad2((t \div 60) % 60) \o Pad2(t % 60)

\* f"Z-Image_{timestamp}_seed{seed}.png"
filename(timestamp, s) ==
    <<"Z-Image_">> \o timestamp \o <<"_seed">> \o Digits(s) \o <<".png">>

Whitespace == {" ", "\t", "\n"}

RECURSIVE lstrip(_)
lstrip(s) ==
    IF s # << >> /\ Head(s) \in Whitespace THEN lstrip(Tail(s)) ELSE s

RECURSIVE rstrip(_)
rstrip(s) ==
    IF s # << >> /\ s[Len(s)] \in Whitespace
    THEN rstrip(SubSeq(s, 1, Len(s) - 1)) ELSE s

\* str.strip()
strip(s) == rstrip(lstrip(s))

\* not prompt or not prompt.strip()
PromptRejected(prompt) == prompt = << >> \/ strip(prompt) = << >>

\* The seed a request with every seed replaced by a drawn one would use.
ResolveSeed_AlwaysDrawn(s, drawn) == drawn

\* if seed == -1: seed = random.randint(0, 2147483647)
ResolveSeed(s, drawn) == IF s = -1 THEN drawn ELSE s

\* not lora_name or lora_name == "Off"
LoraOff(lora_name) == lora_name = "" \/ lora_name = "Off"

\* apply_lora without the same-adapter test: every present adapter is loaded.
LoraBranch_AlwaysReload(lora_name, cur, exists) ==
    IF LoraOff(lora_name) THEN "off"
    ELSE IF ~exists THEN "missing"
    ELSE "swap"

\* apply_lora without the os.path.exists test.
LoraBranch_NoExistsTest(lora_name, cur, exists) ==
    IF LoraOff(lora_name) THEN "off"
    ELSE IF cur # lora_name THEN "swap"
    ELSE "same"

\* The branch apply_lora takes: "off" (unload), "missing" (file not found),
\* "swap" (load the adapter) or "same" (only the weight).
LoraBranch(lora_name, cur, exists) ==
    IF LoraOff(lora_name) THEN "off"
    ELSE IF ~exists THEN "missing"
    ELSE IF cur # lora_name THEN "swap"
    ELSE "same"

\* A swap that does not unload the adapter it replaces.
NeedsUnload_Never(cur) == FALSE

\* if current_lora is not None: pipe.unload_lora_weights()
NeedsUnload(cur) == cur # None

\* A generator seeded from the clock instead of the request's seed.
InferArgs_ClockSeeded(prompt, steps, s, width, height) ==
    [prompt |-> prompt, num_inference_steps |-> steps,
     guidance_scale |-> GuidanceScale, width |-> width, height |-> height,
     max_sequence_length |-> MaxSequenceLength, generator |-> clock]

\* The keyword arguments of pipe(...); generator is the seed of
\* torch.Generator(device).manual_seed(int(seed)).
InferArgs(prompt, steps, s, width, height) ==
    [prompt |-> prompt, num_inference_steps |-> steps,
     guidance_scale |-> GuidanceScale, width |-> width, height |-> height,
     max_sequence_length |-> MaxSequenceLength, generator |-> s]

\* pipe(...).images[0]: the pipeline is a function of its arguments and of
\* the adapter attached to it.
Image(args, adapters, w) == [args |-> args, adapters |-> adapters, weight |-> w]

NoImage == << >>

\* The two values generate_image returns: the image (NoImage for None) and
\* the status text, kept as its kind and the seed and LoRA it prints.
Result(image, kind, s, lora) ==
    [image |-> image, status |-> kind, seed |-> s, lora |-> lora]

NoResult == Result(NoImage, "none", -1, "")

\* lora_info: the LoRA name printed in the status, "" when lora is off.
LoraInfo(lora_name) == IF LoraOff(lora_name) THEN "" ELSE lora_name

\* One call on the pipeline: who made it, the method, its adapter name and
\* weight arguments, and whether it completed (ok) or raised.
Call(r, op, name, w, ok) ==
    [req |-> r, op |-> op, name |-> name, weight |-> w, ok |-> ok]

\* --------------------------------------------------------------- the queue

Running == {r \in Reqs : pc[r] \in {"apply", "load", "setw", "seed", "infer", "save"}}

\* A queue that starts its head whatever is running.
CanStart_NoLimit(r) == queue # << >> /\ Head(queue) = r

\* The event queue starts the longest-waiting call when fewer than
\* ConcurrencyLimit calls of the listener are running.
CanStart(r) ==
    /\ queue # << >>
    /\ Head(queue) = r
    /\ Cardinality(Running) < ConcurrencyLimit

\* -------------------------------------------------------------------- Init

Init ==
    /\ pipe \in {"loaded", None}
    /\ current_lora = None
    /\ attached = {}
    /\ weight = << >>
    /\ files \in SUBSET LoraFiles
    /\ outputs = << >>
    /\ clobbered = {}
    /\ clock = 0
    /\ queue = << >>
    /\ req = [r \in Reqs |-> NoRequest]
    /\ pc = [r \in Reqs |-> "new"]
    /\ seed = [r \in Reqs |-> -1]
    /\ missing = [r \in Reqs |-> FALSE]
    /\ inferred = [r \in Reqs |-> << >>]
    /\ saved = [r \in Reqs |-> << >>]
    /\ result = [r \in Reqs |-> NoResult]
    /\ loraBefore = [r \in Reqs |-> None]
    /\ loraAfter = [r \in Reqs |-> None]
    /\ calls = << >>
    /\ cleared = [r \in Reqs |-> FALSE]

\* ----------------------------------------------------------------- actions

\* generate_image returns (or an exception leaves it): call r ends with
\* result res; cur is current_lora at that moment.
Finish(r, res, cur) ==
    /\ pc' = [pc EXCEPT ![r] = "done"]
    /\ result' = [result EXCEPT ![r] = res]
    /\ loraAfter' = [loraAfter EXCEPT ![r] = cur]

\* A click on the generate button: the event is put on the queue with the
\* values of the input components.
Submit(r) ==
    /\ pc[r] = "new"
    /\ IF r = 1 THEN TRUE ELSE pc[r - 1] # "new"
    /\ \E q \in Requests : req' = [req EXCEPT ![r] = q]
    /\ pc' = [pc EXCEPT ![r] = "queued"]
    /\ queue' = Append(queue, r)
    /\ UNCHANGED <<modelVars, envVars, outVars, seed, missing, inferred,
                   saved, result, loraBefore, loraAfter, calls, cleared>>

\* The queue starts call r: generate_image up to the seed (the two early
\* returns, and the draw of a random seed).
Start(r) ==
    /\ pc[r] = "queued"
    /\ CanStart(r)
    /\ queue' = Tail(queue)
    /\ loraBefore' = [loraBefore EXCEPT ![r] = current_lora]
    /\ \/ /\ pipe = None
          /\ Finish(r, Result(NoImage, "model_not_loaded", -1, ""), current_lora)
          /\ UNCHANGED seed
       \/ /\ pipe # None
          /\ PromptRejected(req[r].prompt)
          /\ Finish(r, Result(NoImage, "no_prompt", -1, ""), current_lora)
          /\ UNCHANGED seed
       \/ /\ pipe # None
          /\ ~PromptRejected(req[r].prompt)
          /\ \E drawn \in DrawnSeeds :
                seed' = [seed EXCEPT ![r] = ResolveSeed(req[r].seed, drawn)]
          /\ pc' = [pc EXCEPT ![r] = "apply"]
          /\ UNCHANGED <<result, loraAfter>>
    /\ UNCHANGED <<modelVars, envVars, outVars, req, missing, inferred,
                   saved, calls, cleared>>

\* apply_lora up to the load: the unload of the "Off" branch, the file test,
\* and the unload before a load. unload_lora_weights is taken to complete.
ApplyLora(r) ==
    /\ pc[r] = "apply"
    /\ missing' = [missing EXCEPT ![r] =
                      ~LoraOff(req[r].lora_name) /\ req[r].lora_name \notin files]
    /\ LET name == req[r].lora_name
           branch == LoraBranch(name, current_lora, name \in files)
           unload == Call(r, "unload_lora_weights", "", 0, TRUE)
       IN  \/ /\ branch = "off"
              /\ IF current_lora # None
                 THEN /\ attached' = {}
                      /\ weight' = << >>
                      /\ current_lora' = None
                      /\ calls' = Append(calls, unload)
                 ELSE UNCHANGED <<attached, weight, current_lora, calls>>
              /\ pc' = [pc EXCEPT ![r] = "seed"]
           \/ /\ branch = "missing"
              /\ pc' = [pc EXCEPT ![r] = "seed"]
              /\ UNCHANGED <<attached, weight, current_lora, calls>>
           \/ /\ branch = "swap"
              /\ IF NeedsUnload(current_lora)
                 THEN /\ attached' = {}
                      /\ weight' = << >>
                      /\ calls' = Append(calls, unload)
                 ELSE UNCHANGED <<attached, weight, calls>>
              /\ pc' = [pc EXCEPT ![r] = "load"]
              /\ UNCHANGED current_lora
           \/ /\ branch = "same"
              /\ pc' = [pc EXCEPT ![r] = "setw"]
              /\ UNCHANGED <<attached, weight, current_lora, calls>>
    /\ UNCHANGED <<pipe, envVars, outVars, queue, req, seed, inferred, saved,
                   result, loraBefore, loraAfter, cleared>>

\* pipe.load_lora_weights(LORA_DIR, weight_name=lora_name, adapter_name="active")
\* and current_lora = lora_name. The load raises when the file is gone by
\* now, and may raise on a file it cannot read; generate_image returns the
\* LoRA error then.
LoadLora(r) ==
    /\ pc[r] = "load"
    /\ LET name == req[r].lora_name
       IN  /\ \/ /\ name \in files
                 /\ calls' = Append(calls, Call(r, "load_lora_weights", name, 0, TRUE))
                 /\ attached' = attached \cup {name}
                 /\ current_lora' = name
                 /\ pc' = [pc EXCEPT ![r] = "setw"]
                 /\ UNCHANGED <<result, loraAfter>>
              \/ /\ calls' = Append(calls, Call(r, "load_lora_weights", name, 0, FALSE))
                 /\ Finish(r, Result(NoImage, "lora_error", -1, ""), current_lora)
                 /\ UNCHANGED <<attached, current_lora>>
    /\ UNCHANGED <<pipe, weight, envVars, outVars, queue, req, seed, missing,
                   inferred, saved, loraBefore, cleared>>

\* pipe.set_adapters(["active"], adapter_weights=[float(lora_weight)]): it
\* raises when the pipeline holds no adapter named "active".
SetAdapters(r) ==
    /\ pc[r] = "setw"
    /\ calls' = Append(calls, Call(r, "set_adapters", "active",
                                   req[r].lora_weight, attached # {}))
    /\ IF attached = {}
       THEN /\ Finish(r, Result(NoImage, "lora_error", -1, ""), current_lora)
            /\ UNCHANGED weight
       ELSE /\ weight' = <<req[r].lora_weight>>
            /\ pc' = [pc EXCEPT ![r] = "seed"]
            /\ UNCHANGED <<result, loraAfter>>
    /\ UNCHANGED <<pipe, current_lora, attached, envVars, outVars, queue, req,
                   seed, missing, inferred, saved, loraBefore, cleared>>

\* generator = torch.Generator(device=device).manual_seed(int(seed)), outside
\* any try: when it raises, the exception leaves generate_image.
SeedGenerator(r) ==
    /\ pc[r] = "seed"
    /\ \/ /\ pc' = [pc EXCEPT ![r] = "infer"]
          /\ UNCHANGED <<result, loraAfter>>
       \/ Finish(r, Result(NoImage, "raised", -1, ""), current_lora)
    /\ UNCHANGED <<modelVars, envVars, outVars, queue, req, seed, missing,
                   inferred, saved, loraBefore, calls, cleared>>

\* The pipeline call inside the try: it returns an image, or raises and the
\* except branch calls torch.cuda.empty_cache() and returns the error.
Infer(r) ==
    /\ pc[r] = "infer"
    /\ LET args == InferArgs(req[r].prompt, req[r].steps, seed[r],
                             req[r].width, req[r].height)
       IN  inferred' = [inferred EXCEPT ![r] = <<Image(args, attached, weight)>>]
    /\ \/ /\ calls' = Append(calls, Call(r, "pipe", "", 0, TRUE))
          /\ pc' = [pc EXCEPT ![r] = "save"]
          /\ UNCHANGED <<result, loraAfter, cleared>>
       \/ /\ calls' = Append(calls, Call(r, "pipe", "", 0, FALSE))
          /\ cleared' = [cleared EXCEPT ![r] = TRUE]
          /\ Finish(r, Result(NoImage, "error", -1, ""), current_lora)
    /\ UNCHANGED <<modelVars, envVars, outVars, queue, req, seed, missing,
                   saved, loraBefore>>

\* The file name from the clock and the seed, image.save(save_path),
\* torch.cuda.empty_cache() and the successful return; image.save writes
\* over a file of that name. When the save raises, the except branch calls
\* torch.cuda.empty_cache() and returns the error.
Save(r) ==
    /\ pc[r] = "save"
    /\ LET name == filename(strftime(clock), seed[r])
           image == inferred[r][1]
       IN  \/ /\ outputs' = [n \in DOMAIN outputs \cup {name} |->
                                IF n = name THEN image ELSE outputs[n]]
              /\ clobbered' = IF name \in DOMAIN outputs
                              THEN clobbered \cup {name} ELSE clobbered
              /\ saved' = [saved EXCEPT ![r] = <<name, clock>>]
              /\ Finish(r, Result(image, "done", seed[r], LoraInfo(req[r].lora_name)),
                        current_lora)
           \/ /\ Finish(r, Result(NoImage, "error", -1, ""), current_lora)
              /\ UNCHANGED <<outputs, clobbered, saved>>
    /\ cleared' = [cleared EXCEPT ![r] = TRUE]
    /\ UNCHANGED <<modelVars, envVars, queue, req, seed, missing, inferred,
                   loraBefore, calls>>

\* A second passes on the wall clock.
Tick ==
    /\ clock < MaxClock
    /\ clock' = clock + 1
    /\ UNCHANGED <<modelVars, files, outVars, queue, req, pc, seed, missing,
                   inferred, saved, result, loraBefore, loraAfter, calls, cleared>>

\* The user puts a file into loras/ or takes one out of it.
ChangeLoraDir ==
    /\ \E f \in LoraFiles :
          files' = IF f \in files THEN files \ {f} ELSE files \cup {f}
    /\ UNCHANGED <<modelVars, clock, outVars, queue, req, pc, seed, missing,
                   inferred, saved, result, loraBefore, loraAfter, calls, cleared>>

Next ==
    \/ \E r \in Reqs : Submit(r)
    \/ \E r \in Reqs : Start(r)
    \/ \E r \in Reqs : ApplyLora(r)
    \/ \E r \in Reqs : LoadLora(r)
    \/ \E r \in Reqs : SetAdapters(r)
    \/ \E r \in Reqs : SeedGenerator(r)
    \/ \E r \in Reqs : Infer(r)
    \/ \E r \in Reqs : Save(r)
    \/ Tick
    \/ ChangeLoraDir

Spec == Init /\ [][Next]_vars

\* -------------------------------------------------------------- properties

AdapterOps == {"unload_lora_weights", "load_lora_weights", "set_adapters"}

\* The calls request r made to change the adapter, in order.
AdapterCallsOf(r) ==
    SelectSeq(calls, LAMBDA c : c.req = r /\ c.op \in AdapterOps)

\* Call r is between its adapter resolution and the end of its inference.
InAdapterWindow(r) == pc[r] \in {"apply", "load", "setw", "seed", "infer"}

\* Call r has left apply_lora.
PastApply(r) ==
    \/ pc[r] \in {"seed", "infer", "save"}
    \/ pc[r] = "done" /\ result[r].status \in {"raised", "error", "done"}

\* Call r got as far as resolving its seed.
SeedResolved(r) ==
    \/ pc[r] \in {"apply", "load", "setw", "seed", "infer", "save"}
    \/ pc[r] = "done" /\ result[r].status \notin {"model_not_loaded", "no_prompt"}

DigitVal(c) == CHOOSE d \in 0..9 : DigitChars[d + 1] = c

RECURSIVE ParseInt(_)
ParseInt(ds) ==
    IF ds = << >> THEN 0
    ELSE ParseInt(SubSeq(ds, 1, Len(ds) - 1)) * 10 + DigitVal(ds[Len(ds)])

\* The number between "_seed" and ".png" of a file name.
SeedInName(n) ==
    LET i == CHOOSE k \in 1..Len(n) : n[k] = "_seed"
    IN  ParseInt(SubSeq(n, i + 1, Len(n) - 1))

\* C1: single-flight exclusivity. At most one generate_image call is between
\* entering adapter resolution and returning; a request that arrived while
\* another is in flight waits on the queue (no request is answered Busy, and
\* none leaves the queue except by being started).
C1_SingleFlight ==
    /\ Cardinality(Running) <= 1
    /\ \A r \in Reqs :
          pc[r] = "queued" <=> \E i \in 1..Len(queue) : queue[i] = r
    /\ \A i, j \in 1..Len(queue) : queue[i] = queue[j] => i = j

\* A request waits on the queue while another is in its inference.
C1_Witness ==
    \E r1, r2 \in Reqs : pc[r1] = "infer" /\ pc[r2] = "queued"

\* C2 (as claimed): a request naming an adapter whose file is not in loras/
\* when apply_lora runs never reaches the pipeline, and returns no image and
\* the LoRA error.
C2_MissingAdapterFails ==
    \A r \in Reqs :
        missing[r] =>
            /\ inferred[r] = << >>
            /\ pc[r] = "done" =>
                  result[r].image = NoImage /\ result[r].status = "lora_error"

\* C3: every adapter call (unload, load, set_adapters) is made by a request
\* that is in its adapter resolution and has not called the pipeline yet,
\* and while no other request is between the start of its adapter resolution
\* and the end of its inference.
C3_AdapterOrdering ==
    [][\A k \in (Len(calls) + 1)..Len(calls') :
          calls'[k].op \in AdapterOps =>
              /\ pc[calls'[k].req] \in {"apply", "load", "setw"}
              /\ inferred[calls'[k].req] = << >>
              /\ \A r \in Reqs \ {calls'[k].req} : ~InAdapterWindow(r)]_vars

\* A request that changed the adapter is in its inference while a waiting
\* request asks for another adapter.
C3_Witness ==
    \E r1, r2 \in Reqs :
        /\ pc[r1] = "infer"
        /\ AdapterCallsOf(r1) # << >>
        /\ pc[r2] = "queued"
        /\ req[r2].lora_name # req[r1].lora_name
        /\ req[r2].lora_name \in files

\* C4: the pipeline holds at most one adapter, and between a completed load
\* of adapter A and a later load of another adapter B there is an unload.
C4_OneAdapter ==
    /\ Cardinality(attached) <= 1
    /\ \A i, j \in 1..Len(calls) :
          ( /\ i < j
            /\ calls[i].op = "load_lora_weights" /\ calls[i].ok
            /\ calls[j].op = "load_lora_weights"
            /\ calls[j].name # calls[i].name )
          => \E k \in (i + 1)..(j - 1) : calls[k].op = "unload_lora_weights"

\* Adapter A was loaded, then unloaded, then B was loaded and is attached.
C4_Witness ==
    /\ Cardinality(attached) = 1
    /\ \E i, j \in 1..Len(calls) :
          /\ i < j
          /\ calls[i].op = "load_lora_weights" /\ calls[i].ok
          /\ calls[j].op = "load_lora_weights" /\ calls[j].ok
          /\ calls[j].name # calls[i].name
          /\ attached = {calls[j].name}

\* Request r2 applies the adapter that request r1 loaded and weighted, with
\* no adapter call of anyone else in between, and finds the file.
AppliedTwice(r1, r2) ==
    LET c1 == AdapterCallsOf(r1)
    IN  /\ r1 # r2
        /\ req[r2].lora_name = req[r1].lora_name
        /\ Len(c1) >= 2
        /\ c1[Len(c1) - 1].op = "load_lora_weights" /\ c1[Len(c1) - 1].ok
        /\ c1[Len(c1)].op = "set_adapters" /\ c1[Len(c1)].ok
        /\ PastApply(r2) /\ ~missing[r2]
        /\ \E i, j \in 1..Len(calls) :
              /\ i < j
              /\ calls[i] = c1[Len(c1)]
              /\ calls[j].req = r2 /\ calls[j].op \in AdapterOps
              /\ \A k \in (i + 1)..(j - 1) : calls[k].op \notin AdapterOps

\* C5: adapter swap idempotence. When apply_lora(A, w) has loaded A and the
\* next adapter call is apply_lora(A, w') for the same A, the second call
\* makes one call on the pipeline, set_adapters with w': no unload, no load,
\* and A has been loaded once by the two calls.
C5_SwapIdempotent ==
    \A r1, r2 \in Reqs :
        AppliedTwice(r1, r2) =>
            /\ AdapterCallsOf(r2) =
                  <<Call(r2, "set_adapters", "active", req[r2].lora_weight, TRUE)>>
            /\ Len(SelectSeq(calls, LAMBDA c :
                      c.req \in {r1, r2} /\ c.op = "load_lora_weights")) = 1

\* The same adapter applied twice in a row with two different weights.
C5_Witness ==
    \E r1, r2 \in Reqs :
        /\ AppliedTwice(r1, r2)
        /\ req[r1].lora_weight # req[r2].lora_weight
        /\ weight = <<req[r2].lora_weight>>

\* C6 (as claimed): every generate_image call that has ended returned a
\* result value, an image or no image with a status message; no exception
\* left the call.
C6_AlwaysReturnsResult ==
    \A r \in Reqs :
        pc[r] = "done" =>
            /\ result[r].status # "raised"
            /\ result[r].status = "done" <=> result[r].image # NoImage

\* C7: the seed used is a drawn integer in [0, 2^31-1] when the requested
\* seed is -1 and the requested seed otherwise; that value seeds the
\* generator, is the number in the saved file's name and is the seed of the
\* returned status.
C7_SeedResolution ==
    \A r \in Reqs :
        /\ SeedResolved(r) =>
              IF req[r].seed = -1
              THEN seed[r] \in 0..2147483647
              ELSE seed[r] = req[r].seed
        /\ inferred[r] # << >> => inferred[r][1].args.generator = seed[r]
        /\ saved[r] # << >> => SeedInName(saved[r][1]) = seed[r]
        /\ result[r].status = "done" => result[r].seed = seed[r]

\* A request with seed -1 has saved and returned an image under the largest
\* seed that can be drawn.
C7_Witness ==
    \E r \in Reqs :
        /\ req[r].seed = -1
        /\ result[r].status = "done"
        /\ saved[r] # << >>
        /\ seed[r] = 2147483647

\* C8: a call whose prompt is rejected, or whose named adapter file is not
\* in loras/ when apply_lora runs, makes no unload, load or set_adapters
\* call, and current_lora is at its end what it was at its start.
C8_RejectedLeavesAdapter ==
    \A r \in Reqs :
        (missing[r] \/ (pc[r] = "done" /\ result[r].status = "no_prompt")) =>
            /\ AdapterCallsOf(r) = << >>
            /\ pc[r] = "done" => loraAfter[r] = loraBefore[r]

\* A call naming a missing file has ended while another adapter is active.
C8_Witness ==
    \E r \in Reqs :
        /\ missing[r]
        /\ pc[r] = "done"
        /\ loraBefore[r] # None
        /\ attached # {}

\* C9 (as claimed): two saves in the same second with different seeds get
\* different file names, and no save writes over an existing file.
C9_NoOverwrite ==
    /\ \A r1, r2 \in Reqs :
          ( /\ saved[r1] # << >> /\ saved[r2] # << >>
            /\ saved[r1][2] = saved[r2][2]
            /\ seed[r1] # seed[r2] )
          => saved[r1][1] # saved[r2][1]
    /\ clobbered = {}

\* C10: determinism. A call with a literal seed passes the pipeline its
\* prompt, steps, guidance scale 0, width, height, maximum sequence length
\* 1024 and a generator seeded with that seed; two such calls with the same
\* arguments and the same attached adapter and weight get the same image.
C10_Determinism ==
    \A r1, r2 \in Reqs :
        ( /\ inferred[r1] # << >> /\ inferred[r2] # << >>
          /\ req[r1].seed # -1 )
        => /\ inferred[r1][1].args =
                 [prompt |-> req[r1].prompt,
                  num_inference_steps |-> req[r1].steps,
                  guidance_scale |-> 0,
                  width |-> req[r1].width,
                  height |-> req[r1].height,
                  max_sequence_length |-> 1024,
                  generator |-> req[r1].seed]
           /\ ( /\ req[r2].prompt = req[r1].prompt
                /\ req[r2].steps = req[r1].steps
                /\ req[r2].seed = req[r1].seed
                /\ req[r2].width = req[r1].width
                /\ req[r2].height = req[r1].height
                /\ inferred[r2][1].adapters = inferred[r1][1].adapters
                /\ inferred[r2][1].weight = inferred[r1][1].weight )
              => inferred[r2] = inferred[r1]

\* Two calls with the same literal seed ran the pipeline at different
\* seconds with the same adapter attached.
C10_Witness ==
    \E r1, r2 \in Reqs :
        /\ r1 # r2
        /\ inferred[r1] # << >> /\ inferred[r2] # << >>
        /\ req[r1].seed # -1 /\ req[r2].seed = req[r1].seed
        /\ inferred[r1][1].adapters # {}
        /\ inferred[r2][1].adapters = inferred[r1][1].adapters
        /\ inferred[r2][1].weight = inferred[r1][1].weight
        /\ saved[r1] # << >> /\ saved[r2] # << >>
        /\ saved[r1][2] # saved[r2][2]

\* current_lora names what the pipeline holds: None and no adapter, or the
\* one attached adapter.
TrackedIsAttached ==
    IF current_lora = None THEN attached = {} ELSE attached = {current_lora}

\* C11 (as claimed): every generate_image call that passed the entry checks
\* and returned, with an image or with an error (the LoRA error and a failed
\* save included), has called torch.cuda.empty_cache() before returning.
C11_CacheClearedOnExit ==
    \A r \in Reqs :
        (pc[r] = "done" /\ result[r].status \in {"done", "error", "lora_error"})
            => cleared[r]

\* C12 (as claimed): whenever no call is between the unload and the load of
\* a swap, current_lora names the adapter the pipeline holds, also after a
\* load that raised once the previous adapter was unloaded; and no call
\* reaches set_adapters by the same-adapter path with no adapter attached.
C12_TrackedMatchesAttached ==
    /\ (\A r \in Reqs : pc[r] # "load") => TrackedIsAttached
    /\ \A r \in Reqs : pc[r] = "setw" => attached # {}

=============================================================================
